---- MODULE Spec2Model ----
(***************************************************************************)
(* Model of checkVisa.py: the poll / compare / notify loop of main(), the  *)
(* state file written by save_state and read by load_previous_state, and   *)
(* the notifier send_telegram_message.                                     *)
(*                                                                         *)
(* One iteration of the `while True` body is one action.  The results of   *)
(* the outside world (the fetched status, the outcome of the Telegram      *)
(* call, the outcome of the file write, a KeyboardInterrupt) are inputs    *)
(* drawn with \E.  Per-iteration observation variables record what the     *)
(* iteration did (the notifications it attempted, its save_state call).    *)
(***************************************************************************)
EXTENDS Integers, Sequences, FiniteSets, TLC

\* ---------------------------------------------------------------- bounds
\* number of loop iterations explored
MaxIter == 6
\* number of table rows of the fetched page
MaxRows == 3
\* number of cells of a table row
MaxCells == 3

\* ------------------------------------------------------------- constants
\* Python's None, for a status
None == "<None>"
\* Python's None, for a timestamp
NoTime == -1
\* COUNTRY (line 19) and some other country found in an older state file
COUNTRY == "Spain"
OtherCountry == "Chile"
\* max_consecutive_errors (line 189)
max_consecutive_errors == 5
\* the text used for a falsy previous status in the critical alert (line 203)
Desconocido == "Desconocido"

\* statuses get_visa_status can return: non-empty strings (lines 129, 137)
Statuses == {"Open", "Closed"}
\* status values a state file found at start-up can hold
FileStatuses == Statuses \cup {None, ""}

\* ------------------------------------------------------------ state file
\* A JSON value of the state file: a string, null, or a key that is absent.
\* json.dump writes None as null and a str as a string (line 64); json.load
\* followed by dict.get reads null and an absent key as None (lines 48-49).
JsonNull    == [t |-> "null", v |-> ""]
JsonMissing == [t |-> "missing", v |-> ""]
json_dump_str(x) == IF x = None THEN JsonNull ELSE [t |-> "string", v |-> x]
\* the read with `data.get('status') or None`: an empty string is lost
json_load_str_EmptyIsNone(j) == IF j.t = "string" /\ j.v # "" THEN j.v ELSE None
json_load_str(j) == IF j.t = "string" THEN j.v ELSE None

\* the same for a timestamp
JsonNullTime    == [t |-> "null", v |-> 0]
JsonMissingTime == [t |-> "missing", v |-> 0]
json_dump_time(x) == IF x = NoTime THEN JsonNullTime ELSE [t |-> "string", v |-> x]
json_load_time(j) == IF j.t = "string" THEN j.v ELSE NoTime

\* a state file that is not a JSON object, of the given kind
NoRecord(k) == [kind |-> k, status |-> JsonMissing,
                last_check |-> JsonMissingTime, country |-> JsonMissing]

AbsentFile  == NoRecord("absent")
\* the file exists and open() raises (a directory, no permission)
UnreadableFile == NoRecord("unreadable")
\* not JSON at all, or a truncated document
CorruptFile == NoRecord("corrupt")
\* valid JSON that is not an object (a list, a number): data.get raises
NonRecordFile == NoRecord("nonrecord")

\* the document json.dump writes for the dict of lines 58-62
RecordFile(s, t, c) ==
    [kind |-> "record", status |-> json_dump_str(s),
     last_check |-> json_dump_time(t), country |-> json_dump_str(c)]

\* a JSON object without the key 'status'
NoStatusFile(t, c) == [RecordFile(None, t, c) EXCEPT !.status = JsonMissing]

\* the state files main() can find at start-up
InitialFiles ==
    {AbsentFile, UnreadableFile, CorruptFile, NonRecordFile}
    \cup { RecordFile(s, 0, c) : s \in FileStatuses, c \in {COUNTRY, OtherCountry} }
    \cup { RecordFile("Open", NoTime, COUNTRY), NoStatusFile(0, COUNTRY) }

\* the marker of a call that raised instead of returning
Raised == "<raised>"

\* the body of the try statement of load_previous_state (lines 46-50): what
\* it returns, or the exception it raises
LoadBody(f) ==
    CASE f.kind = "absent"     -> [exc |-> "none", status |-> None, last_check |-> NoTime]
      [] f.kind = "unreadable" -> [exc |-> "OSError", status |-> None, last_check |-> NoTime]
      [] f.kind = "corrupt"    -> [exc |-> "JSONDecodeError", status |-> None, last_check |-> NoTime]
      [] f.kind = "nonrecord"  -> [exc |-> "AttributeError", status |-> None, last_check |-> NoTime]
      [] f.kind = "record"     -> [exc |-> "none", status |-> json_load_str(f.status),
                                   last_check |-> json_load_time(f.last_check)]

\* load_previous_state without the handler of lines 51-53
load_previous_state_NoHandler(f) ==
    IF LoadBody(f).exc = "none"
    THEN <<LoadBody(f).status, LoadBody(f).last_check>>
    ELSE <<Raised, NoTime>>

\* load_previous_state that takes only a record of the configured country
load_previous_state_OwnCountryOnly(f) ==
    IF LoadBody(f).exc = "none" /\ f.kind = "record"
       /\ json_load_str(f.country) = COUNTRY
    THEN <<LoadBody(f).status, LoadBody(f).last_check>>
    ELSE <<None, NoTime>>

\* load_previous_state (lines 43-53): <<status, last_check>>
load_previous_state(f) ==
    IF LoadBody(f).exc = "none"
    THEN <<LoadBody(f).status, LoadBody(f).last_check>>
    ELSE <<None, NoTime>>

\* outcomes of the write in save_state
SaveOutcomes == {"ok", "openfail", "writefail", "interrupt"}

\* save_state that keeps the country field of the record it overwrites
save_state_KeepsCountry(f, status, timestamp, out) ==
    CASE out = "ok"        -> RecordFile(status, timestamp,
                                         IF f.kind = "record" /\ f.country.t = "string"
                                         THEN f.country.v ELSE COUNTRY)
      [] out = "openfail"  -> f
      [] out = "writefail" -> NoRecord("corrupt")
      [] out = "interrupt" -> NoRecord("corrupt")

\* save_state (lines 55-67): the file after the call.  "openfail": open()
\* raised, nothing written; "writefail": the file was truncated by open(.., 'w')
\* and the dump raised; "interrupt": KeyboardInterrupt after the truncation.
save_state(f, status, timestamp, out) ==
    CASE out = "ok"        -> RecordFile(status, timestamp, COUNTRY)
      [] out = "openfail"  -> f
      [] out = "writefail" -> CorruptFile
      [] out = "interrupt" -> CorruptFile

\* save_state without the handler of lines 66-67
save_raises_Propagates(out) ==
    CASE out = "interrupt" -> "interrupt"
      [] out \in {"openfail", "writefail"} -> "raise"
      [] OTHER -> "none"

\* what save_state does to its caller: it swallows Exception (line 66), a
\* KeyboardInterrupt is not an Exception and propagates
save_raises(out) == IF out = "interrupt" THEN "interrupt" ELSE "none"

\* -------------------------------------------------------------- notifier
\* outcomes of requests.post / raise_for_status inside send_telegram_message
NetOutcomes == {"ok", "httperror", "neterror", "other", "interrupt"}

\* send_telegram_message (lines 69-92): "true" / "false" are its return
\* values; "raise" is an exception that is not a RequestException and so
\* leaves the function; "interrupt" is a KeyboardInterrupt during the call.
send_telegram_message(conf, net) ==
    IF ~conf THEN "false"
    ELSE CASE net = "ok"        -> "true"
           [] net = "httperror" -> "false"
           [] net = "neterror"  -> "false"
           [] net = "other"     -> "raise"
           [] net = "interrupt" -> "interrupt"

\* whether send_telegram_message reaches requests.post (line 84)
network_call(conf) == conf

\* the three messages of main()
StartMsg(s)     == [kind |-> "start", old |-> None, new |-> s, count |-> 0]
ChangeMsg(p, s) == [kind |-> "change", old |-> p, new |-> s, count |-> 0]
\* `previous_status or 'Desconocido'` (line 203): None and "" are falsy
CriticalMsg(n, p) ==
    [kind |-> "critical", old |-> IF p \in {None, ""} THEN Desconocido ELSE p,
     new |-> None, count |-> n]

\* line 212 without its test: every fetched status is taken for a change
StatusChanged_Always(s, p) == TRUE

\* `current_status != previous_status` (line 212)
StatusChanged(s, p) == s # p

\* `previous_status is None` (line 213)
IsFirstRun(p) == p = None

\* `consecutive_errors >= max_consecutive_errors` (line 202)
ThresholdReached(n) == n >= max_consecutive_errors

\* the message of lines 213-220
Message(p, s) == IF IsFirstRun(p) THEN StartMsg(s) ELSE ChangeMsg(p, s)

\* no save_state call in this iteration
NoSave == [called |-> FALSE, status |-> None, timestamp |-> NoTime]
SaveCall(s, t) == [called |-> TRUE, status |-> s, timestamp |-> t]

\* ---------------------------------------------------------- the fetcher
\* A text is a sequence of words; get_text(strip=True) of an element is the
\* concatenation of the texts inside it.  COUNTRY as a text:
CountryText == <<COUNTRY>>
\* what get_visa_status returns for None
NoneText == <<None>>

\* line 111 as `row_text.startswith(COUNTRY)`
Contains_AtStart(text, pat) ==
    Len(text) >= Len(pat) /\ SubSeq(text, 1, Len(pat)) = pat

\* `pat in text` (line 111): pat occurs in text as a contiguous part
Contains(text, pat) ==
    \E i \in 1..(Len(text) - Len(pat) + 1) :
        SubSeq(text, i, i + Len(pat) - 1) = pat

\* str.lower() on the words of the model
LowerWord(w) ==
    CASE w = "N/A"   -> "n/a"
      [] w = "Open"  -> "open"
      [] w = "Spain" -> "spain"
      [] w = "New"   -> "new"
      [] OTHER       -> w
Lower(text) == [i \in 1..Len(text) |-> LowerWord(text[i])]

\* a cell without a span inside
NoSpan == [present |-> FALSE, cls |-> {}, text |-> <<>>]
Span(c, t) == [present |-> TRUE, cls |-> c, text |-> t]
\* a <td> or <th> with its classes, its own text and the <span> it holds
Cell(tag, c, t, sp) == [tag |-> tag, cls |-> c, text |-> t, span |-> sp]

\* the cells a row of the page is made of
NameCells ==
    { Cell("td", {}, t, NoSpan) : t \in {<<"Spain">>, <<"New", "Spain">>, <<"spain">>} }
StatusCells ==
    { Cell("td", {}, t, NoSpan) : t \in {<<>>, <<"-">>, <<"Open">>} }
    \cup { Cell("td", {"status"}, <<"Open">>, NoSpan) }
    \cup { Cell("td", {}, <<>>, Span({"label", "label-primary"}, <<"-">>)) }
    \cup { Cell("td", {}, <<>>, Span({"label", "label-danger"}, t)) : t \in {<<"N/A">>, <<"Open">>} }
    \cup { Cell("td", {}, <<>>, Span({"label"}, <<"Open">>)) }
    \cup { Cell("th", {}, <<"Open">>, NoSpan) }
Cells == NameCells \cup StatusCells

\* the rows of a page: 1..MaxCells cells
Rows == UNION { [1..n -> Cells] : n \in 1..MaxCells }

\* element.get_text(strip=True) of a cell (lines 110, 128, 136)
cell_text(c) == c.text \o c.span.text

\* row.get_text(strip=True) (line 110)
RECURSIVE row_text(_)
row_text(r) ==
    IF r = <<>> THEN <<>>
    ELSE cell_text(Head(r)) \o row_text(Tail(r))

\* the elements below a row in document order: each cell, then its span
RECURSIVE ElementsFrom(_, _)
ElementsFrom(r, i) ==
    IF i > Len(r) THEN <<>>
    ELSE <<[tag |-> r[i].tag, cls |-> r[i].cls, text |-> cell_text(r[i]),
            lastChild |-> i = Len(r)]>>
         \o (IF r[i].span.present
             THEN <<[tag |-> "span", cls |-> r[i].span.cls,
                     text |-> r[i].span.text, lastChild |-> TRUE]>>
             ELSE <<>>)
         \o ElementsFrom(r, i + 1)
Elements(r) == ElementsFrom(r, 1)

\* status_selectors (lines 115-123); tag "" stands for any tag
Selector(tag, c, last) == [tag |-> tag, cls |-> c, lastChild |-> last]
status_selectors ==
    << Selector("span", {"label", "label-primary"}, FALSE),
       Selector("span", {"label", "label-success"}, FALSE),
       Selector("span", {"label", "label-warning"}, FALSE),
       Selector("span", {"label", "label-danger"}, FALSE),
       Selector("span", {"label"}, FALSE),
       Selector("", {"status"}, FALSE),
       Selector("td", {}, TRUE) >>

\* an element matches a CSS selector
Matches(e, sel) ==
    /\ sel.tag \in {"", e.tag}
    /\ sel.cls \subseteq e.cls
    /\ sel.lastChild => e.lastChild

\* row.select_one(selector) (line 126): the first matching element, as a
\* sequence of length 0 or 1
select_one(r, sel) ==
    LET es == Elements(r)
        hits == { i \in 1..Len(es) : Matches(es[i], sel) }
    IN IF hits = {} THEN <<>>
       ELSE <<es[CHOOSE i \in hits : \A j \in hits : i <= j]>>

\* line 129 with the comparison made on the text as it is, not lowered
Usable_CaseSensitive(text) == text # <<>> /\ text \notin {<<>>, <<"n/a">>, <<"-">>}

\* the test of line 129
Usable(text) == text # <<>> /\ Lower(text) \notin {<<>>, <<"n/a">>, <<"-">>}

\* the number the model gives to the last-cell step of lines 133-139
FallbackVia == Len(status_selectors) + 1

\* row.find_all("td") (line 134): the indices of the td cells
TdCells(r) == { i \in 1..Len(r) : r[i].tag = "td" }

\* cells[-1].get_text(strip=True) (line 136); <<>> stands for no td at all,
\* which line 135 treats like an empty last cell
last_cell(r) ==
    IF TdCells(r) = {} THEN <<>>
    ELSE cell_text(r[CHOOSE i \in TdCells(r) : \A j \in TdCells(r) : j <= i])

VARIABLES
    configured,          \* BOT_TOKEN and CHAT_ID are not the placeholders
    file,                \* content of STATE_FILE
    previous_status,     \* main's local
    last_check,          \* main's local
    consecutive_errors,  \* main's local
    pc,                  \* "check" | "sleep" | "stopped" | "crashed"
    clock,               \* number of iterations started
    \* what the last iteration did
    timestamp,           \* its timestamp (line 193)
    current_status,      \* what get_visa_status returned
    prev0,               \* previous_status when it started
    errs0,               \* consecutive_errors when it started
    attempts,            \* the messages passed to send_telegram_message
    sendResult,          \* "none" | "true" | "false" | "raise" | "interrupt"
    saved,               \* its save_state call
    saveResult,          \* "none" or the outcome of the write
    outcome,             \* "none" | "completed" | "exception" | "interrupted"
    \* what the run did so far
    failStreak,          \* iterations in a row, up to the last, whose fetch failed
    streakBase,          \* consecutive_errors when that streak began
    streakAlerts,        \* critical alerts attempted during that streak
    sinceAlert,          \* failed iterations since the last critical alert
                         \* attempt, -1 before the first
    failedFor,           \* status whose start/change notification returned
                         \* false and which is still the last fetched one
    failedAt,            \* the iteration of that notification, 0 for none
    file0,               \* the state file main() found at start-up
    netResult,           \* the last iteration's requests.post: "none" when it
                         \* was not reached, else its outcome
    okFetches,           \* iterations whose fetch returned a status, 2 for more
    startAttempts,       \* 'monitor started' notifications attempted, 2 for more
    twin,                \* a second run of main(), started from the same state
                         \* file with another country field and given the same
                         \* fetch results, network and write outcomes
    \* one call of get_visa_status
    fpc,                 \* "idle" | "request" | "scan" | "returned"
    scanned,             \* rows the loop of line 109 has taken
    row,                 \* the row whose body (lines 112-139) runs or returned
    sel,                 \* the selector the loop of line 125 tries next,
                         \* FallbackVia when it is over, 0 outside a row
    firstMatch,          \* the first row that contained COUNTRY, 0 for none
    passedOver,          \* a row that contained COUNTRY gave no status
    skipped,             \* the last row taken failed the test of line 111
    hadCountry,          \* and one of its words was COUNTRY
    fetchResult,         \* the returned text, NoneText for None
    via                  \* what returned it: a selector 1..7, FallbackVia for
                         \* lines 133-139, 0 for the return of None

vars == <<configured, file, previous_status, last_check, consecutive_errors,
          pc, clock, timestamp, current_status, prev0, errs0, attempts,
          sendResult, saved, saveResult, outcome, failStreak, streakBase,
          streakAlerts, sinceAlert, failedFor, failedAt, file0, netResult,
          okFetches, startAttempts, twin, fpc, scanned, row, sel, firstMatch,
          passedOver, skipped, hadCountry, fetchResult, via>>

fetchVars == <<fpc, scanned, row, sel, firstMatch, passedOver, skipped,
               hadCountry, fetchResult, via>>

mainVars == <<configured, file, previous_status, last_check, consecutive_errors,
              pc, clock, timestamp, current_status, prev0, errs0, attempts,
              sendResult, saved, saveResult, outcome, failStreak, streakBase,
              streakAlerts, sinceAlert, failedFor, failedAt, file0, netResult,
              okFetches, startAttempts, twin>>

\* a count that stops at 2
UpTo2(n) == IF n > 2 THEN 2 ELSE n

\* the outcome of requests.post, "none" when the call is not reached
net_result(conf, net) == IF network_call(conf) THEN net ELSE "none"

\* the same state file with the other country in its country field
SwapCountry(f) ==
    IF f.kind # "record" THEN f
    ELSE [f EXCEPT !.country =
            json_dump_str(IF json_load_str(f.country) = COUNTRY
                          THEN OtherCountry ELSE COUNTRY)]

\* main() up to the loop (lines 175-189), as a function of the state file
MainInit(f) ==
    [file |-> f,
     previous_status |-> load_previous_state(f)[1],
     consecutive_errors |-> 0,
     pc |-> "check",
     attempts |-> <<>>]

TwinInit(f) == MainInit(SwapCountry(f))

\* get_visa_status before its request, with nothing scanned
FetchStart(p) ==
    /\ fpc = p
    /\ scanned = 0
    /\ row = <<>>
    /\ sel = 0
    /\ firstMatch = 0
    /\ passedOver = FALSE
    /\ skipped = FALSE
    /\ hadCountry = FALSE
    /\ fetchResult = NoneText
    /\ via = 0

\* main() up to the loop (lines 175-189)
MainStart ==
    /\ configured \in BOOLEAN
    /\ file \in InitialFiles
    /\ previous_status = load_previous_state(file)[1]
    /\ last_check = load_previous_state(file)[2]
    /\ consecutive_errors = 0
    /\ pc = "check"
    /\ clock = 0
    /\ timestamp = NoTime
    /\ current_status = None
    /\ prev0 = None
    /\ errs0 = 0
    /\ attempts = <<>>
    /\ sendResult = "none"
    /\ saved = NoSave
    /\ saveResult = "none"
    /\ outcome = "none"
    /\ failStreak = 0
    /\ streakBase = 0
    /\ streakAlerts = 0
    /\ sinceAlert = -1
    /\ failedFor = None
    /\ failedAt = 0
    /\ file0 = file
    /\ netResult = "none"
    /\ okFetches = 0
    /\ startAttempts = 0
    /\ twin = TwinInit(file)

\* main() starts; no call of get_visa_status is followed row by row
Init ==
    /\ FetchStart("idle")
    /\ MainStart

\* the iteration's bookkeeping common to every branch
StartIteration ==
    /\ pc = "check"
    /\ clock < MaxIter
    /\ clock' = clock + 1
    /\ timestamp' = clock + 1
    /\ prev0' = previous_status
    /\ errs0' = consecutive_errors
    /\ UNCHANGED <<configured, last_check, file0>>
    /\ UNCHANGED fetchVars

\* lines 236-238 without the increment of line 238
AfterTry_NoCount(raised, errs) ==
    CASE raised = "none"      -> [errs |-> errs, pc |-> "sleep", outcome |-> "completed"]
      [] raised = "raise"     -> [errs |-> errs, pc |-> "sleep", outcome |-> "exception"]
      [] raised = "interrupt" -> [errs |-> errs, pc |-> "stopped", outcome |-> "interrupted"]

\* how the try statement of the loop ends, from what left its body
\* (lines 233-238): the counter after it, and where the loop goes
AfterTry(raised, errs) ==
    CASE raised = "none"      -> [errs |-> errs, pc |-> "sleep", outcome |-> "completed"]
      [] raised = "raise"     -> [errs |-> errs + 1, pc |-> "sleep", outcome |-> "exception"]
      [] raised = "interrupt" -> [errs |-> errs, pc |-> "stopped", outcome |-> "interrupted"]

\* what a call of send_telegram_message raises into main
send_raises(r) == IF r \in {"raise", "interrupt"} THEN r ELSE "none"

\* the record of the run after an iteration whose fetch failed; alerted: the
\* iteration attempted a critical alert
FailedFetchHistory(alerted) ==
    /\ failStreak' = failStreak + 1
    /\ streakBase' = IF failStreak = 0 THEN consecutive_errors ELSE streakBase
    /\ streakAlerts' = IF alerted THEN streakAlerts + 1 ELSE streakAlerts
    /\ sinceAlert' = IF alerted THEN 0
                     ELSE IF sinceAlert = -1 THEN -1 ELSE sinceAlert + 1
    /\ UNCHANGED <<failedFor, failedAt>>

\* the record of the run after an iteration that fetched s; notified: it
\* called send_telegram_message, with result r
FetchedHistory(s, notified, r) ==
    /\ failStreak' = 0
    /\ streakBase' = 0
    /\ streakAlerts' = 0
    /\ sinceAlert' = IF sinceAlert # -1 /\ notified /\ r = "raise"
                     THEN sinceAlert + 1 ELSE sinceAlert
    /\ failedFor' = IF notified /\ r = "false" THEN s
                    ELSE IF s = failedFor THEN failedFor ELSE None
    /\ failedAt' = IF notified /\ r = "false" THEN clock + 1
                   ELSE IF s = failedFor THEN failedAt ELSE 0

\* lines 223-226 with the update made only when the send returned True
NextPrevious_OnlyIfSent(p, s, r) == IF r = "true" THEN s ELSE p

\* previous_status after lines 223-226: the assignment of line 226 runs
\* whenever send_telegram_message returned, whatever it returned
NextPrevious(p, s, r) == IF send_raises(r) = "none" THEN s ELSE p

\* lines 198-205 as a function of the run's state m
IterationFails(m, conf, net) ==
    LET errs1 == m.consecutive_errors + 1
        r == send_telegram_message(conf, net)
        t == AfterTry(send_raises(r), IF send_raises(r) = "none" THEN 0 ELSE errs1)
    IN IF ThresholdReached(errs1)
       THEN [m EXCEPT !.attempts = <<CriticalMsg(errs1, m.previous_status)>>,
                      !.consecutive_errors = t.errs,
                      !.pc = t.pc]
       ELSE [m EXCEPT !.attempts = <<>>,
                      !.consecutive_errors = errs1,
                      !.pc = "sleep"]

\* lines 207-231 as a function of the run's state m; ts is the timestamp
IterationSucceeds(m, conf, s, net, out, ts) ==
    LET r == send_telegram_message(conf, net)
        afterSend == AfterTry(send_raises(r), 0)
        afterSave == AfterTry(save_raises(out), 0)
    IN IF StatusChanged(s, m.previous_status)
       THEN IF send_raises(r) = "none"
            THEN [file |-> save_state(m.file, s, ts, out),
                  previous_status |-> NextPrevious(m.previous_status, s, r),
                  consecutive_errors |-> afterSave.errs,
                  pc |-> afterSave.pc,
                  attempts |-> <<Message(m.previous_status, s)>>]
            ELSE [m EXCEPT !.attempts = <<Message(m.previous_status, s)>>,
                           !.consecutive_errors = afterSend.errs,
                           !.pc = afterSend.pc]
       ELSE [m EXCEPT !.file = save_state(m.file, s, ts, out),
                      !.attempts = <<>>,
                      !.consecutive_errors = afterSave.errs,
                      !.pc = afterSave.pc]

\* get_visa_status returned None (lines 198-205)
CheckFails(net) ==
    /\ StartIteration
    /\ current_status' = None
    /\ LET errs1 == consecutive_errors + 1 IN
       IF ThresholdReached(errs1)
       THEN LET r == send_telegram_message(configured, net)
                \* line 205 runs only when the send returned
                t == AfterTry(send_raises(r), IF send_raises(r) = "none" THEN 0 ELSE errs1)
            IN /\ attempts' = <<CriticalMsg(errs1, previous_status)>>
               /\ sendResult' = r
               /\ consecutive_errors' = t.errs
               /\ pc' = t.pc
               /\ outcome' = t.outcome
       ELSE /\ attempts' = <<>>
            /\ sendResult' = "none"
            /\ consecutive_errors' = errs1
            /\ pc' = "sleep"
            /\ outcome' = "completed"
    /\ saved' = NoSave
    /\ saveResult' = "none"
    /\ FailedFetchHistory(ThresholdReached(consecutive_errors + 1))
    /\ netResult' = IF ThresholdReached(consecutive_errors + 1)
                    THEN net_result(configured, net) ELSE "none"
    /\ twin' = IterationFails(twin, configured, net)
    /\ UNCHANGED <<file, previous_status, okFetches, startAttempts>>

\* get_visa_status returned a status (lines 207-231)
CheckSucceeds(s, net, out) ==
    /\ StartIteration
    /\ current_status' = s
    /\ IF StatusChanged(s, previous_status)
       THEN LET message == Message(previous_status, s)
                r == send_telegram_message(configured, net)
            IN /\ attempts' = <<message>>
               /\ sendResult' = r
               /\ IF send_raises(r) = "none"
                  THEN LET t == AfterTry(save_raises(out), 0)
                       IN /\ previous_status' = NextPrevious(previous_status, s, r)
                          /\ saved' = SaveCall(s, clock + 1)
                          /\ saveResult' = out
                          /\ file' = save_state(file, s, clock + 1, out)
                          /\ consecutive_errors' = t.errs
                          /\ pc' = t.pc
                          /\ outcome' = t.outcome
                  ELSE LET t == AfterTry(send_raises(r), 0)
                       IN /\ saved' = NoSave
                          /\ saveResult' = "none"
                          /\ consecutive_errors' = t.errs
                          /\ pc' = t.pc
                          /\ outcome' = t.outcome
                          /\ UNCHANGED <<file, previous_status>>
       ELSE LET t == AfterTry(save_raises(out), 0)
            IN /\ attempts' = <<>>
               /\ sendResult' = "none"
               /\ saved' = SaveCall(s, clock + 1)
               /\ saveResult' = out
               /\ file' = save_state(file, s, clock + 1, out)
               /\ consecutive_errors' = t.errs
               /\ pc' = t.pc
               /\ outcome' = t.outcome
               /\ UNCHANGED previous_status
    /\ FetchedHistory(s, StatusChanged(s, previous_status),
                      send_telegram_message(configured, net))
    /\ netResult' = IF StatusChanged(s, previous_status)
                    THEN net_result(configured, net) ELSE "none"
    /\ okFetches' = UpTo2(okFetches + 1)
    /\ startAttempts' = IF StatusChanged(s, previous_status) /\ IsFirstRun(previous_status)
                        THEN UpTo2(startAttempts + 1) ELSE startAttempts
    /\ twin' = IterationSucceeds(twin, configured, s, net, out, clock + 1)

\* KeyboardInterrupt while get_visa_status runs (lines 196, 233-235): it is
\* not an Exception, so lines 144-149 do not catch it
InterruptFetch ==
    /\ StartIteration
    /\ current_status' = None
    /\ attempts' = <<>>
    /\ sendResult' = "none"
    /\ saved' = NoSave
    /\ saveResult' = "none"
    /\ pc' = "stopped"
    /\ outcome' = "interrupted"
    /\ netResult' = "none"
    /\ twin' = [twin EXCEPT !.attempts = <<>>, !.pc = "stopped"]
    /\ UNCHANGED <<file, previous_status, consecutive_errors, failStreak,
                   streakBase, streakAlerts, sinceAlert, failedFor, failedAt,
                   okFetches, startAttempts>>

\* time.sleep returns (lines 240-241)
Sleep ==
    /\ pc = "sleep"
    /\ pc' = "check"
    /\ twin' = [twin EXCEPT !.pc = "check"]
    /\ UNCHANGED <<configured, file, previous_status, last_check,
                   consecutive_errors, clock, timestamp, current_status,
                   prev0, errs0, attempts, sendResult, saved, saveResult,
                   outcome, failStreak, streakBase, streakAlerts,
                   sinceAlert, failedFor, failedAt, file0, netResult,
                   okFetches, startAttempts>>
    /\ UNCHANGED fetchVars

\* KeyboardInterrupt during time.sleep (line 241), which is outside the try
\* statement: the exception leaves main()
InterruptSleep ==
    /\ pc = "sleep"
    /\ pc' = "crashed"
    /\ twin' = [twin EXCEPT !.pc = "crashed"]
    /\ UNCHANGED <<configured, file, previous_status, last_check,
                   consecutive_errors, clock, timestamp, current_status,
                   prev0, errs0, attempts, sendResult, saved, saveResult,
                   outcome, failStreak, streakBase, streakAlerts,
                   sinceAlert, failedFor, failedAt, file0, netResult,
                   okFetches, startAttempts>>
    /\ UNCHANGED fetchVars

Next ==
    \/ \E net \in NetOutcomes : CheckFails(net)
    \/ \E s \in Statuses, net \in NetOutcomes, out \in SaveOutcomes :
           CheckSucceeds(s, net, out)
    \/ InterruptFetch
    \/ Sleep
    \/ InterruptSleep

Spec == Init /\ [][Next]_vars

\* ------------------------------------------------ get_visa_status alone
\* one call of get_visa_status on a page whose rows are drawn one by one
InitFetch ==
    /\ FetchStart("request")
    /\ MainStart
    /\ configured = FALSE
    /\ file = AbsentFile

\* requests.get or raise_for_status raises, or the parser does (lines
\* 102-105, 144-149)
RequestFails ==
    /\ fpc = "request"
    /\ fpc' = "returned"
    /\ fetchResult' = NoneText
    /\ via' = 0
    /\ UNCHANGED <<scanned, row, sel, firstMatch, passedOver, skipped, hadCountry>>
    /\ UNCHANGED mainVars

\* the page arrives and is parsed (lines 102-108)
PageParsed ==
    /\ fpc = "request"
    /\ fpc' = "scan"
    /\ UNCHANGED <<scanned, row, sel, firstMatch, passedOver, skipped,
                   hadCountry, fetchResult, via>>
    /\ UNCHANGED mainVars

\* the loop of line 109 takes the next row r and tests it (lines 109-111)
NextRow(r) ==
    /\ fpc = "scan"
    /\ scanned < MaxRows
    /\ scanned' = scanned + 1
    /\ hadCountry' = (\E i \in 1..Len(row_text(r)) : row_text(r)[i] = COUNTRY)
    /\ IF Contains(row_text(r), CountryText)
       THEN /\ fpc' = "row"
            /\ row' = r
            /\ sel' = 1
            /\ skipped' = FALSE
            /\ firstMatch' = IF firstMatch = 0 THEN scanned + 1 ELSE firstMatch
       ELSE /\ row' = <<>>
            /\ skipped' = TRUE
            /\ UNCHANGED <<fpc, sel, firstMatch>>
    /\ UNCHANGED <<passedOver, fetchResult, via>>
    /\ UNCHANGED mainVars

\* one pass of the loop of line 125 (lines 125-131)
TrySelector ==
    /\ fpc = "row"
    /\ sel \in 1..Len(status_selectors)
    /\ LET hit == select_one(row, status_selectors[sel])
       IN IF hit # <<>> /\ Usable(hit[1].text)
          THEN /\ fpc' = "returned"
               /\ fetchResult' = hit[1].text
               /\ via' = sel
               /\ UNCHANGED sel
          ELSE /\ sel' = sel + 1
               /\ UNCHANGED <<fpc, fetchResult, via>>
    /\ UNCHANGED <<scanned, row, firstMatch, passedOver, skipped, hadCountry>>
    /\ UNCHANGED mainVars

\* no selector gave a status: the last td (lines 133-139); when it gives
\* none either, the loop of line 109 goes on with the next row
LastCell ==
    /\ fpc = "row"
    /\ sel = FallbackVia
    /\ IF last_cell(row) # <<>>
       THEN /\ fpc' = "returned"
            /\ fetchResult' = last_cell(row)
            /\ via' = FallbackVia
            /\ UNCHANGED <<row, sel, passedOver>>
       ELSE /\ fpc' = "scan"
            /\ row' = <<>>
            /\ sel' = 0
            /\ passedOver' = TRUE
            /\ UNCHANGED <<fetchResult, via>>
    /\ UNCHANGED <<scanned, firstMatch, skipped, hadCountry>>
    /\ UNCHANGED mainVars

\* no row is left (lines 141-142)
EndOfRows ==
    /\ fpc = "scan"
    /\ fpc' = "returned"
    /\ fetchResult' = NoneText
    /\ via' = 0
    /\ UNCHANGED <<scanned, row, sel, firstMatch, passedOver, skipped, hadCountry>>
    /\ UNCHANGED mainVars

NextFetch ==
    \/ RequestFails
    \/ PageParsed
    \/ \E r \in Rows : NextRow(r)
    \/ TrySelector
    \/ LastCell
    \/ EndOfRows

SpecFetch == InitFetch /\ [][NextFetch]_vars

TypeOK ==
    /\ configured \in BOOLEAN
    /\ pc \in {"check", "sleep", "stopped", "crashed"}
    /\ previous_status \in FileStatuses
    /\ consecutive_errors \in 0..(2 * MaxIter)
    /\ clock \in 0..MaxIter
    /\ Len(attempts) <= 1

\* ------------------------------------------------------------ properties
\* the last iteration ended (its observations are complete)
IterationDone == clock > 0 /\ pc \in {"sleep", "check", "stopped", "crashed"}

\* a KeyboardInterrupt ended the last iteration inside get_visa_status
FetchInterrupted ==
    outcome = "interrupted" /\ sendResult # "interrupt" /\ saveResult # "interrupt"

\* the last iteration's fetch returned None
FetchFailed == clock > 0 /\ current_status = None /\ ~FetchInterrupted

\* the last iteration's fetch returned a status
FetchOK == clock > 0 /\ current_status # None

\* the last iteration attempted a notification of kind k
Attempted(k) == Len(attempts) = 1 /\ attempts[1].kind = k

\* C1: an iteration that fetches S, with a prior status P that is not none
\* and differs from S, makes exactly one notification attempt, the change
\* message with old P and new S, sets previous_status to S and calls
\* save_state with S, whatever send_telegram_message does (an external
\* interrupt of the process apart).
C1_ChangeNotifiedAndSaved ==
    (FetchOK /\ prev0 # None /\ current_status # prev0 /\ outcome # "interrupted")
        => /\ attempts = <<ChangeMsg(prev0, current_status)>>
           /\ previous_status = current_status
           /\ saved.called /\ saved.status = current_status

\* C2: an iteration that fetches S while previous_status is none makes
\* exactly one notification attempt, the start message with S, sets
\* previous_status to S and calls save_state with S and its timestamp.
C2_FirstRunNotifiedAndSaved ==
    (FetchOK /\ prev0 = None /\ outcome # "interrupted")
        => /\ attempts = <<StartMsg(current_status)>>
           /\ previous_status = current_status
           /\ saved = SaveCall(current_status, timestamp)

\* C3: an iteration whose fetched status equals previous_status sends no
\* notification, leaves previous_status unchanged and calls save_state with
\* the same status and the iteration's new timestamp.
C3_UnchangedSavesOnly ==
    (FetchOK /\ current_status = prev0)
        => /\ attempts = <<>>
           /\ sendResult = "none"
           /\ previous_status = prev0
           /\ saved = SaveCall(prev0, timestamp)
           /\ timestamp = clock
           /\ (saveResult = "ok" => file = RecordFile(prev0, clock, COUNTRY))

C3_Witness ==
    /\ pc = "sleep" /\ FetchOK /\ current_status = prev0
    /\ saveResult = "ok" /\ clock >= 2 /\ load_previous_state(file)[2] = clock

\* C4: from a counter of 0, five failed fetches in a row make exactly one
\* critical alert, in the fifth iteration and not before; after the sixth
\* the counter is 1 and there is still one alert.
C4_OneAlertAfterFive ==
    (streakBase = 0 /\ outcome # "interrupted")
        => /\ (failStreak \in 1..4 => streakAlerts = 0 /\ attempts = <<>>)
           /\ (failStreak = 5 => streakAlerts = 1 /\ Attempted("critical"))
           /\ (failStreak = 6 => streakAlerts = 1 /\ attempts = <<>>
                                 /\ consecutive_errors = 1)

\* C5: in every execution, unexpected exceptions included, a counter that
\* reached the threshold is 0 again before the sleep, so the counter is in
\* 0..4 at every sleep.
C5_CounterBelowThresholdAtSleep ==
    pc = "sleep" => consecutive_errors \in 0..(max_consecutive_errors - 1)

\* C6: a critical alert is attempted only after another full threshold of
\* failed iterations (the alerting one counted): never fewer than 5 since the
\* previous attempt, so never in two consecutive iterations.
C6_AlertsAThresholdApart ==
    [][(clock' # clock /\ Len(attempts') = 1 /\ attempts'[1].kind = "critical")
          => (sinceAlert = -1 \/ sinceAlert + 1 >= max_consecutive_errors)]_vars

\* C7: an unexpected exception inside an iteration is caught by the loop:
\* the counter becomes one more than it was when the exception was raised,
\* that count is what the threshold test of later failed fetches sees, and
\* the loop goes to its sleep, it does not end.
C7_ExceptionCaughtAndCounted ==
    [][(clock' # clock)
          => /\ (outcome' = "exception"
                   => /\ pc' = "sleep"
                      /\ consecutive_errors' =
                           (IF current_status' = None THEN consecutive_errors + 1
                            ELSE 0) + 1)
             /\ (current_status' = None /\ outcome' = "completed"
                   => (Len(attempts') = 1
                         <=> consecutive_errors + 1 >= max_consecutive_errors))]_vars

\* an exception after a fetch, then four failed fetches: the alert goes out
\* in the fourth failed iteration
C7_Witness ==
    /\ pc = "sleep" /\ Attempted("critical")
    /\ failStreak = 4 /\ streakBase = 1 /\ attempts[1].count = 5

\* C8: an interrupt never leaves main() as an uncaught exception: the loop
\* always ends through its stop handler.
C8_InterruptEndsGracefully == pc # "crashed"

\* C9: every iteration whose fetch returns a status calls save_state with
\* that status and its timestamp; an iteration whose fetch fails does not
\* call save_state.
C9_SaveOnEverySuccessfulFetch ==
    /\ (FetchOK /\ outcome # "interrupted")
          => saved = SaveCall(current_status, timestamp)
    /\ (clock > 0 /\ current_status = None) => saved = NoSave

\* C10 as stated: after a first-run or change notification that returned
\* false, the in-memory and the persisted status are the new status, and a
\* later iteration fetching that status attempts no notification.
C10_NoRetryPersisted ==
    /\ (IterationDone /\ sendResult = "false" /\ ~Attempted("critical")
          /\ outcome = "completed")
          => /\ previous_status = current_status
             /\ file.kind = "record"
             /\ load_previous_state(file)[1] = current_status
    /\ (failedFor # None /\ FetchOK /\ current_status = failedFor
          /\ clock > failedAt) => attempts = <<>>

\* C10 amended: after such a notification the in-memory status is the new
\* status and save_state has been called with it, so the persisted status
\* is the new one whenever that write succeeded; a later iteration fetching
\* that status attempts no notification.
C10_NoRetry ==
    /\ (IterationDone /\ sendResult = "false" /\ ~Attempted("critical"))
          => /\ previous_status = current_status
             /\ saved = SaveCall(current_status, timestamp)
             /\ (saveResult = "ok" => file.kind = "record"
                                     /\ load_previous_state(file)[1] = current_status)
    /\ failedFor # None => previous_status = failedFor
    /\ (failedFor # None /\ FetchOK /\ current_status = failedFor
          /\ clock > failedAt) => attempts = <<>> /\ sendResult = "none"

\* the notification for a status returned false two iterations ago, and the
\* status has been fetched again since
C10_Witness ==
    /\ pc = "sleep" /\ failedFor # None /\ failedAt > 0 /\ clock >= failedAt + 2
    /\ current_status = failedFor /\ attempts = <<>>

\* the kinds of state file that hold no JSON object
NoRecordKinds == {"absent", "unreadable", "corrupt", "nonrecord"}

\* C11: load_previous_state never raises; for an absent, unreadable, corrupt
\* or non-record state file it returns (None, None), main() starts with no
\* prior status and its first successful fetch is announced as a first run.
C11_LoadNeverRaises ==
    /\ previous_status # Raised
    /\ load_previous_state(file0)[1] # Raised
    /\ file0.kind \in NoRecordKinds
          => /\ load_previous_state(file0) = <<None, NoTime>>
             /\ last_check = NoTime
             /\ (clock = 0 => previous_status = None /\ pc = "check")
             /\ (FetchOK /\ okFetches = 1)
                   => prev0 = None /\ attempts = <<StartMsg(current_status)>>

\* a corrupt state file, a failed fetch, then the first successful fetch
C11_Witness ==
    /\ file0.kind = "corrupt" /\ pc = "sleep" /\ clock >= 2
    /\ okFetches = 1 /\ FetchOK /\ Attempted("start")

\* C12 as stated: a failing save_state raises nothing to main(), leaves the
\* counter alone, the iteration completes with previous_status set to the
\* fetched status, and the persisted record keeps its older content.
C12_FailedSaveKeepsRecord ==
    [][(clock' # clock /\ saveResult' \in {"openfail", "writefail"})
          => /\ outcome' = "completed" /\ pc' = "sleep"
             /\ consecutive_errors' = 0
             /\ previous_status' = current_status'
             /\ file' = file]_vars

\* C12 amended: the same, but the persisted record keeps its older content
\* only when the file could not be opened; a write that fails after the
\* open leaves a truncated file.  In both cases it is not the new record.
C12_FailedSaveSwallowed ==
    [][(clock' # clock /\ saveResult' \in {"openfail", "writefail"})
          => /\ outcome' = "completed" /\ pc' = "sleep"
             /\ consecutive_errors' = 0
             /\ previous_status' = current_status'
             /\ (saveResult' = "openfail" => file' = file)
             /\ (saveResult' = "writefail" => file'.kind = "corrupt")
             /\ file' # RecordFile(current_status', timestamp', COUNTRY)]_vars

\* a record was there, the write failed and the loop sleeps with the
\* fetched status in memory
C12_Witness ==
    /\ pc = "sleep" /\ saveResult = "writefail" /\ file0.kind = "record"
    /\ file.kind = "corrupt" /\ previous_status = current_status
    /\ consecutive_errors = 0 /\ outcome = "completed"

\* C13: send_telegram_message returns true only when the API call was made
\* and succeeded; with placeholder credentials it returns false without a
\* network call; when the call fails or the API answers with an error
\* status it returns false.
C13_SendContract ==
    /\ sendResult = "true" => netResult = "ok"
    /\ (~configured /\ Len(attempts) = 1)
          => sendResult = "false" /\ netResult = "none"
    /\ netResult \in {"httperror", "neterror", "other"} => sendResult = "false"

\* C14: after a successful save_state(s, t), load_previous_state returns
\* exactly (s, t), and saving the loaded pair again leaves the same record;
\* for the save of the last iteration and for every status and timestamp
\* written over the current file.
C14_RoundTrip ==
    /\ (IterationDone /\ saveResult = "ok")
          => /\ load_previous_state(file) = <<saved.status, saved.timestamp>>
             /\ save_state(file, load_previous_state(file)[1],
                           load_previous_state(file)[2], "ok") = file
    /\ \A s \in FileStatuses, t \in {NoTime} \cup (0..MaxIter) :
          LET written == save_state(file, s, t, "ok")
              loaded  == load_previous_state(written)
          IN /\ loaded = <<s, t>>
             /\ save_state(written, loaded[1], loaded[2], "ok") = written
             /\ json_load_str(written.country) = COUNTRY

\* a record of another country was overwritten and reads back as saved
C14_Witness ==
    /\ pc = "sleep" /\ saveResult = "ok" /\ file0.kind = "record"
    /\ json_load_str(file0.country) = OtherCountry
    /\ load_previous_state(file) = <<current_status, clock>>

\* C17: after every iteration in which save_state succeeded the persisted
\* status is previous_status and the persisted country is COUNTRY; and
\* previous_status, once not None, is never None again.
C17_PersistedMatchesMemory ==
    /\ []((IterationDone /\ saveResult = "ok")
            => /\ file.kind = "record"
               /\ load_previous_state(file)[1] = previous_status
               /\ json_load_str(file.country) = COUNTRY)
    /\ [][previous_status # None => previous_status' # None]_vars

C17_Witness ==
    /\ pc = "sleep" /\ saveResult = "ok" /\ previous_status \in Statuses
    /\ file0.kind = "record" /\ json_load_str(file0.country) = OtherCountry
    /\ json_load_str(file.country) = COUNTRY

\* C18: in one run the 'monitor started' notification is attempted at most
\* once, and only in the first iteration whose fetch succeeds.
C18_StartAtMostOnce ==
    /\ startAttempts <= 1
    /\ Attempted("start") => okFetches = 1

\* C19: every critical alert is sent when the counter is exactly 5, reports
\* a count of 5 and the previous status (the unknown marker when there is
\* none); no alert reports a count above the threshold.
C19_AlertReportsThreshold ==
    Attempted("critical")
        => /\ errs0 + 1 = max_consecutive_errors
           /\ attempts[1].count = max_consecutive_errors
           /\ attempts[1].old = IF previous_status \in {None, ""}
                                THEN Desconocido ELSE previous_status

\* C20: the country field of the state file has no influence: the run and
\* its twin, started from files that differ only in that field, make the
\* same notification attempts and keep the same status and counter; a
\* status saved for another country is the prior status, so a first fetch
\* that differs from it is announced as a change.
C20_CountryIgnored ==
    /\ twin.previous_status = previous_status
    /\ twin.consecutive_errors = consecutive_errors
    /\ twin.attempts = attempts
    /\ twin.pc = pc
    /\ (/\ file0.kind = "record"
        /\ json_load_str(file0.country) = OtherCountry
        /\ load_previous_state(file0)[1] # None
        /\ FetchOK /\ okFetches = 1
        /\ current_status # load_previous_state(file0)[1])
          => attempts = <<ChangeMsg(load_previous_state(file0)[1], current_status)>>

C20_Witness ==
    /\ file0 = RecordFile("Open", 0, OtherCountry)
    /\ pc = "sleep" /\ okFetches = 1 /\ current_status = "Closed"
    /\ attempts = <<ChangeMsg("Open", "Closed")>>
    /\ twin.attempts = attempts
    /\ twin.file # file

\* the texts line 129 refuses, lowered
Placeholders == {<<"n/a">>, <<"-">>}

\* one of the words of the row is COUNTRY, letter for letter
HasCountry(r) == \E i \in 1..Len(row_text(r)) : row_text(r)[i] = COUNTRY

\* selector j of status_selectors gives nothing usable in row r: no
\* element, or a text that is empty, "-" or "n/a" in any letter case
NothingFrom(r, j) ==
    LET hit == select_one(r, status_selectors[j])
    IN hit = <<>> \/ hit[1].text = <<>> \/ Lower(hit[1].text) \in Placeholders

\* C15 as stated: the result comes only from the first row that contains
\* COUNTRY; when that row yields nothing the result is None, and when no
\* row contains COUNTRY the result is None.
C15_FirstMatchingRowOnly ==
    fpc = "returned"
        => /\ firstMatch = 0 => fetchResult = NoneText
           /\ fetchResult # NoneText => scanned = firstMatch
           /\ passedOver => fetchResult = NoneText

\* C15 amended: the result comes from the first row, in document order,
\* that contains COUNTRY (case-sensitive) and yields a text; a row that
\* contains COUNTRY and yields nothing is passed over and the rows after it
\* are examined; a row without COUNTRY is never examined; when no row
\* contains COUNTRY the result is None.
C15_FirstYieldingRow ==
    /\ fpc \in {"row", "returned"} /\ row # <<>> => HasCountry(row)
    /\ (fpc \in {"scan", "row"} /\ scanned > 0) => (skipped <=> ~hadCountry)
    /\ fpc = "returned"
          => /\ firstMatch = 0 => fetchResult = NoneText
             /\ fetchResult # NoneText
                   => /\ via \in 1..FallbackVia
                      /\ firstMatch \in 1..scanned
                      /\ (scanned # firstMatch => passedOver)
    /\ passedOver => firstMatch \in 1..scanned

\* the first row with COUNTRY gave nothing and the second gave the status
C15_Witness ==
    /\ fpc = "returned" /\ passedOver /\ firstMatch = 1 /\ scanned = 2
    /\ fetchResult = <<"Open">> /\ HasCountry(row)

\* C16 as stated: the candidates are tried in the order of
\* status_selectors, a candidate whose text is empty, "-" or "n/a" in any
\* letter case is skipped for the next one, the last cell's text is the
\* result when it is the only usable one, and "-" or "n/a" is never the
\* returned status.
C16_PlaceholderNeverReturned ==
    (fpc = "returned" /\ via # 0)
        => /\ fetchResult # <<>>
           /\ Lower(fetchResult) \notin Placeholders
           /\ \A j \in 1..(via - 1) : j <= Len(status_selectors) => NothingFrom(row, j)

\* C16 amended: the same order and the same skipping; a status returned by
\* a selector is never empty, "-" or "n/a"; when no selector gives a usable
\* text the result is the text of the last td whenever that text is not
\* empty, so "-" or "n/a" is returned only then, as the text of the last td.
C16_SelectorPriority ==
    /\ fpc = "row" => \A j \in 1..(sel - 1) : NothingFrom(row, j)
    /\ (fpc = "returned" /\ via # 0)
          => /\ fetchResult # <<>>
             /\ \A j \in 1..(via - 1) : j <= Len(status_selectors) => NothingFrom(row, j)
             /\ via \in 1..Len(status_selectors)
                   => /\ select_one(row, status_selectors[via]) # <<>>
                      /\ fetchResult = select_one(row, status_selectors[via])[1].text
                      /\ Lower(fetchResult) \notin Placeholders
             /\ via = FallbackVia => fetchResult = last_cell(row)
             /\ Lower(fetchResult) \in Placeholders
                   => via = FallbackVia /\ fetchResult = last_cell(row)

\* a badge holding "N/A" was skipped and the last cell gave the status
C16_Witness ==
    /\ fpc = "returned" /\ via = Len(status_selectors)
    /\ select_one(row, status_selectors[4]) # <<>>
    /\ select_one(row, status_selectors[4])[1].text = <<"N/A">>
    /\ fetchResult = <<"Open">> /\ fetchResult = last_cell(row)
====
